---- MODULE Spec2Model ----
(***************************************************************************)
(* Model of backend/main.py of the travel agent: the date permutation      *)
(* tool, the three provider tool adapters, the chat endpoint with its      *)
(* session database, and the speech-to-text endpoint with its temporary    *)
(* file.                                                                   *)
(*                                                                         *)
(* Strings are sequences of one-character strings, so that strptime and    *)
(* strftime are modelled by what they do to the characters.  A calendar    *)
(* date (a datetime at midnight) is a record [year, month, day].           *)
(***************************************************************************)
EXTENDS Integers, Sequences, FiniteSets

VARIABLES permArgs, permOut,
          toolCall, toolOut,
          db, gen, served, lost, chatLog,
          files, nextTemp, sttOut

vars == <<permArgs, permOut, toolCall, toolOut, db, gen, served, lost, chatLog,
          files, nextTemp, sttOut>>

permVars == <<permArgs, permOut>>
toolVars == <<toolCall, toolOut>>
chatVars == <<db, gen, served, lost, chatLog>>
sttVars == <<files, nextTemp, sttOut>>

-----------------------------------------------------------------------------
(* Bounds of the model *)

\* number of consecutive days, from WindowAnchor on, offered as input dates
WindowLen == 3
\* longest date range (end - start, in days) a modelled call enumerates
MaxSpan == 3
\* min_days and max_days are drawn from 0 .. MaxDays
MaxDays == 2
\* search_flights is called for 1 .. MaxAdults adults
MaxAdults == 2
\* a session's history is followed up to MaxHistory items
MaxHistory == 4
\* the process is restarted at most MaxRestarts times
MaxRestarts == 2
\* at most MaxUploads speech-to-text requests create a temporary file
MaxUploads == 5

-----------------------------------------------------------------------------
(* Python values *)

\* Python's None, distinct from every string (also from the empty string)
None == <<"<None>">>

\* bool(x) of an Optional[str]: None and "" are falsy
Truthy(x) == x # None /\ x # <<>>

-----------------------------------------------------------------------------
(* The calendar of datetime *)

DigitChars == <<"0", "1", "2", "3", "4", "5", "6", "7", "8", "9">>

DigitVal(c) == (CHOOSE i \in 1..10 : DigitChars[i] = c) - 1

\* the characters of the model in ASCII order; str < str compares by code point
Alphabet == <<" ", "-", "0", "1", "2", "3", "4", "5", "6", "7", "8", "9",
              "a", "d", "e", "n", "o", "t">>

Ord(c) == CHOOSE i \in 1..Len(Alphabet) : Alphabet[i] = c

\* a < b on Python strings: lexicographic, a proper prefix is smaller
RECURSIVE StrLess(_, _)
StrLess(a, b) ==
    IF b = <<>> THEN FALSE
    ELSE IF a = <<>> THEN TRUE
    ELSE IF Ord(Head(a)) # Ord(Head(b)) THEN Ord(Head(a)) < Ord(Head(b))
    ELSE StrLess(Tail(a), Tail(b))

IsLeap(y) == y % 4 = 0 /\ (y % 100 # 0 \/ y % 400 = 0)

DaysInMonth(y, m) ==
    IF m = 2 THEN (IF IsLeap(y) THEN 29 ELSE 28)
    ELSE IF m \in {4, 6, 9, 11} THEN 30 ELSE 31

\* days before January 1st of year y
DaysBeforeYear(y) == (y - 1) * 365 + ((y - 1) \div 4) - ((y - 1) \div 100) + ((y - 1) \div 400)

RECURSIVE DaysBeforeMonth(_, _)
DaysBeforeMonth(y, m) ==
    IF m = 1 THEN 0 ELSE DaysBeforeMonth(y, m - 1) + DaysInMonth(y, m - 1)

\* the proleptic Gregorian ordinal of a date; datetime differences and
\* comparisons are differences and comparisons of ordinals
ToOrdinal(d) == DaysBeforeYear(d.year) + DaysBeforeMonth(d.year, d.month) + d.day

\* datetime.max, as a date
DateMax == [year |-> 9999, month |-> 12, day |-> 31]

\* a <= b on datetimes
DateLe(a, b) == ToOrdinal(a) <= ToOrdinal(b)

\* (b - a).days
DaysBetween(a, b) == ToOrdinal(b) - ToOrdinal(a)

\* the calendar day after d (d before datetime.max)
NextDay(d) ==
    IF d.day < DaysInMonth(d.year, d.month) THEN [d EXCEPT !.day = d.day + 1]
    ELSE IF d.month < 12 THEN [year |-> d.year, month |-> d.month + 1, day |-> 1]
    ELSE [year |-> d.year + 1, month |-> 1, day |-> 1]

\* current + timedelta(days=1): OverflowError past datetime.max
AddDay(d) ==
    IF d = DateMax THEN [exc |-> "OverflowError", msg |-> "date value out of range"]
    ELSE [exc |-> "none", val |-> NextDay(d)]

TwoDigits(n) == <<DigitChars[(n \div 10) + 1], DigitChars[(n % 10) + 1]>>

\* d.strftime("%Y-%m-%d") for a year of four digits
Strftime(d) ==
    TwoDigits(d.year \div 100) \o TwoDigits(d.year % 100) \o <<"-">>
        \o TwoDigits(d.month) \o <<"-">> \o TwoDigits(d.day)

\* the number in s[p..q], all digits
RECURSIVE DigitsVal(_, _, _)
DigitsVal(s, p, q) ==
    IF q < p THEN 0 ELSE DigitsVal(s, p, q - 1) * 10 + DigitVal(s[q])

\* s[p] is one of the characters cs (FALSE past the end of s)
CharIn(s, p, cs) == p <= Len(s) /\ s[p] \in cs

NonZeroDigits == {"1", "2", "3", "4", "5", "6", "7", "8", "9"}

AllDigits == NonZeroDigits \cup {"0"}

\* %m is 1[0-2]|0[1-9]|[1-9]: the lengths its alternatives match at p, in order
MonthAlternatives(s, p) ==
    (IF CharIn(s, p, {"1"}) /\ CharIn(s, p + 1, {"0", "1", "2"}) THEN <<2>> ELSE <<>>)
    \o (IF CharIn(s, p, {"0"}) /\ CharIn(s, p + 1, NonZeroDigits) THEN <<2>> ELSE <<>>)
    \o (IF CharIn(s, p, NonZeroDigits) THEN <<1>> ELSE <<>>)

\* %d is 3[0-1]|[1-2]\d|0[1-9]|[1-9]| [1-9]: the length of the first
\* alternative that matches at p, 0 when none does
MatchDay(s, p) ==
    IF CharIn(s, p, {"3"}) /\ CharIn(s, p + 1, {"0", "1"}) THEN 2
    ELSE IF CharIn(s, p, {"1", "2"}) /\ CharIn(s, p + 1, AllDigits) THEN 2
    ELSE IF CharIn(s, p, {"0"}) /\ CharIn(s, p + 1, NonZeroDigits) THEN 2
    ELSE IF CharIn(s, p, NonZeroDigits) THEN 1
    ELSE IF CharIn(s, p, {" "}) /\ CharIn(s, p + 1, NonZeroDigits) THEN 2
    ELSE 0

ValueError(m) == [exc |-> "ValueError", msg |-> m]

\* datetime.strptime(s, "%Y-%m-%d"): the format's regular expression
\* (\d\d\d\d)-(%m)-(%d) is matched at the start of s, backtracking over the
\* alternatives of %m; text left after the match, year 0 and a day the month
\* does not have are ValueErrors
Strptime(s) ==
    LET yearOk == /\ \A i \in 1..4 : CharIn(s, i, AllDigits)
                  /\ CharIn(s, 5, {"-"})
        alts == MonthAlternatives(s, 6)
        fits == {i \in 1..Len(alts) : /\ CharIn(s, 6 + alts[i], {"-"})
                                      /\ MatchDay(s, 7 + alts[i]) > 0}
    IN  IF ~yearOk \/ fits = {} THEN ValueError("does not match format")
        ELSE
            LET i == CHOOSE k \in fits : \A j \in fits : k <= j
                mlen == alts[i]
                dpos == 7 + mlen
                dlen == MatchDay(s, dpos)
                y == DigitsVal(s, 1, 4)
                m == DigitsVal(s, 6, 5 + mlen)
                d == IF s[dpos] = " " THEN DigitVal(s[dpos + 1])
                     ELSE DigitsVal(s, dpos, dpos + dlen - 1)
            IN  IF dpos + dlen - 1 # Len(s) THEN ValueError("unconverted data remains")
                ELSE IF y = 0 THEN ValueError("year 0 is out of range")
                ELSE IF d > DaysInMonth(y, m) THEN ValueError("day is out of range for month")
                ELSE [exc |-> "none", val |-> [year |-> y, month |-> m, day |-> d]]

-----------------------------------------------------------------------------
(* permutations *)

Ok(v) == [exc |-> "none", val |-> v]

\* two steps in sequence, each a list or an exception: the first exception
\* raised ends the try block, otherwise the lists are appended in order
Concat(a, b) ==
    IF a.exc # "none" THEN a
    ELSE IF b.exc # "none" THEN b
    ELSE Ok(a.val \o b.val)

\* the loop "while current <= end: append(current.strftime(..)); current += 1 day"
RECURSIVE DateLoop(_, _)
RECURSIVE DateLoopNext(_, _)
DateLoop(current, end) ==
    IF ~DateLe(current, end) THEN Ok(<<>>)
    ELSE Concat(Ok(<<Strftime(current)>>), DateLoopNext(AddDay(current), end))

\* the loop continues from the incremented date, if the increment did not raise
DateLoopNext(next, end) ==
    IF next.exc # "none" THEN next ELSE DateLoop(next.val, end)

\* the loop over the parsed bounds, if parsing them did not raise
DatesBetween(start, end) ==
    IF start.exc # "none" THEN start
    ELSE IF end.exc # "none" THEN end
    ELSE DateLoop(start.val, end.val)

\* strptime of both bounds, then the loop: the list of formatted dates
DateRange(s, e) == DatesBetween(Strptime(s), Strptime(e))

\* "if dep < ret": the comparison of the two formatted strings
DepartureBeforeReturn(dep, ret) == StrLess(dep, ret)

\* the duration test with "or" in place of the chained comparison
WithinDurationEither(min_days, trip_days, max_days) ==
    min_days <= trip_days \/ trip_days <= max_days

\* "if min_days <= trip_days <= max_days"
WithinDuration(min_days, trip_days, max_days) ==
    min_days <= trip_days /\ trip_days <= max_days

\* trip_days = (strptime(ret) - strptime(dep)).days
TripDays(r, d) ==
    IF r.exc # "none" THEN r
    ELSE IF d.exc # "none" THEN d
    ELSE Ok(DaysBetween(d.val, r.val))

\* the duration test and the append of the pair
KeepWithin(dep, ret, trip_days, min_days, max_days) ==
    IF trip_days.exc # "none" THEN trip_days
    ELSE IF WithinDuration(min_days, trip_days.val, max_days)
         THEN Ok(<<[departure_date |-> dep, return_date |-> ret]>>)
         ELSE Ok(<<>>)

\* the body of "for ret in returns" for one dep and one ret
KeepPair(dep, ret, min_days, max_days) ==
    IF ~DepartureBeforeReturn(dep, ret) THEN Ok(<<>>)
    ELSE KeepWithin(dep, ret, TripDays(Strptime(ret), Strptime(dep)), min_days, max_days)

\* the loop "for ret in returns" for one dep, from index i on
RECURSIVE ReturnLoop(_, _, _, _, _)
ReturnLoop(dep, returns, i, min_days, max_days) ==
    IF i > Len(returns) THEN Ok(<<>>)
    ELSE Concat(KeepPair(dep, returns[i], min_days, max_days),
                ReturnLoop(dep, returns, i + 1, min_days, max_days))

\* "if returns": a non-empty list is truthy
HasReturns(returns) == returns # <<>>

\* the body of "for dep in departures" for one dep
DepartureStep(dep, returns, min_days, max_days) ==
    IF HasReturns(returns) THEN ReturnLoop(dep, returns, 1, min_days, max_days)
    ELSE Ok(<<[departure_date |-> dep]>>)

\* the loop "for dep in departures", from index i on
RECURSIVE DepartureLoop(_, _, _, _, _)
DepartureLoop(departures, returns, i, min_days, max_days) ==
    IF i > Len(departures) THEN Ok(<<>>)
    ELSE Concat(DepartureStep(departures[i], returns, min_days, max_days),
                DepartureLoop(departures, returns, i + 1, min_days, max_days))

\* "if return_date_start and return_date_end"
ReturnRangeGiven(a) == Truthy(a.return_date_start) /\ Truthy(a.return_date_end)

\* the returns list: empty unless both return dates are truthy
ReturnDates(a) ==
    IF ReturnRangeGiven(a) THEN DateRange(a.return_date_start, a.return_date_end)
    ELSE Ok(<<>>)

\* the perms list from the two lists, if building them did not raise
PermuteLists(departures, returns, min_days, max_days) ==
    IF departures.exc # "none" THEN departures
    ELSE IF returns.exc # "none" THEN returns
    ELSE DepartureLoop(departures.val, returns.val, 1, min_days, max_days)

\* the body of the try block: the perms list, or the first exception raised
PermutationsTry(a) ==
    PermuteLists(DateRange(a.departure_date_start, a.departure_date_end),
                 ReturnDates(a), a.min_days, a.max_days)

\* the except clause of the provider adapters, "except ResponseError as e"
PermutationsCatchesResponseError(exc) == exc = "ResponseError"

\* "except Exception as e": ValueError and OverflowError are both Exceptions
PermutationsCatches(exc) == exc \in {"ValueError", "OverflowError"}

\* json.dumps(perms), or json.dumps({"error": str(e)}) from the except clause
PermutationsReturn(r) ==
    IF r.exc = "none" THEN [kind |-> "array", items |-> r.val]
    ELSE IF PermutationsCatches(r.exc) THEN [kind |-> "object", error |-> r.msg]
    ELSE [kind |-> "raised", exc |-> r.exc]

\* permutations(...)
Permutations(a) == PermutationsReturn(PermutationsTry(a))

\* the first day of the window of input dates: the window crosses the end
\* of February of a leap year
WindowAnchor == [year |-> 2024, month |-> 2, day |-> 28]

RECURSIVE DaysFrom(_, _)
DaysFrom(d, n) == IF n = 0 THEN {} ELSE {d} \cup DaysFrom(NextDay(d), n - 1)

WindowDates == DaysFrom(WindowAnchor, WindowLen)

\* "2024-3-1": a date strptime accepts and strftime does not produce
UnpaddedDate == <<"2", "0", "2", "4", "-", "3", "-", "1">>

\* "2024-02-30": matches the format, is no calendar date
NoSuchDay == <<"2", "0", "2", "4", "-", "0", "2", "-", "3", "0">>

\* "not-a-date"
NotADate == <<"n", "o", "t", "-", "a", "-", "d", "a", "t", "e">>

\* the last two days of the calendar
LastDates == {[year |-> 9999, month |-> 12, day |-> 30], DateMax}

\* the strings a call passes as departure_date_start and departure_date_end
DepartureInputs ==
    {Strftime(d) : d \in WindowDates \cup LastDates} \cup {UnpaddedDate, NotADate}

\* what a call passes as return_date_start and return_date_end
ReturnInputs ==
    {Strftime(d) : d \in WindowDates \cup LastDates} \cup {NoSuchDay, <<>>, None}

\* a range the model enumerates: at most MaxSpan days from start to end
SpanWithin(start, end) ==
    start.exc = "none" /\ end.exc = "none" => DaysBetween(start.val, end.val) <= MaxSpan

SpanInBounds(s, e) == SpanWithin(Strptime(s), Strptime(e))

\* the arguments a call can be given
PermutationsInputs ==
    [departure_date_start : DepartureInputs, departure_date_end : DepartureInputs,
     return_date_start : ReturnInputs, return_date_end : ReturnInputs,
     min_days : 0..MaxDays, max_days : 0..MaxDays]

\* the calls the model makes: those whose ranges it can enumerate
InBounds(a) ==
    /\ SpanInBounds(a.departure_date_start, a.departure_date_end)
    /\ Truthy(a.return_date_start) /\ Truthy(a.return_date_end)
          => SpanInBounds(a.return_date_start, a.return_date_end)

\* the call of the permutations tool with the arguments permArgs
PermutationsCall ==
    /\ permOut.kind = "pending"
    /\ permOut' = Permutations(permArgs)
    /\ UNCHANGED <<permArgs, toolVars, chatVars, sttVars>>

-----------------------------------------------------------------------------
(* The provider tool adapters *)

\* an Optional argument of an adapter: None is the empty set, a value v is {v}
NoArg == {}

Some(v) == {v}

\* what the provider call does: it returns data, raises the SDK's
\* ResponseError, or raises an error that is no ResponseError (the response
\* body is read outside the SDK's own error wrapping)
ProviderOutcomes == {"none", "ResponseError", "ConnectionResetError"}

\* "except ResponseError as e"
AdapterCatches(exc) == exc = "ResponseError"

\* the try/except of an adapter around one provider call
AdapterResult(outcome, request) ==
    IF outcome = "none" THEN [kind |-> "json", data |-> request]
    ELSE IF AdapterCatches(outcome) THEN [kind |-> "object", error |-> outcome]
    ELSE [kind |-> "raised", exc |-> outcome]

\* params[k] = v
Put(params, k, v) ==
    [x \in DOMAIN params \cup {k} |-> IF x = k THEN v ELSE params[x]]

\* the params dict of search_flights as passed to the provider
FlightParams(origin, destination, departure_date, return_date, adults, max_price, currency, non_stop_only, max_results) ==
    LET params == [originLocationCode |-> origin,
                   destinationLocationCode |-> destination,
                   departureDate |-> departure_date,
                   adults |-> adults,
                   maxPrice |-> max_price,
                   currencyCode |-> currency,
                   max |-> max_results,
                   nonStop |-> non_stop_only]
        withReturn == IF return_date # NoArg
                      THEN Put(params, "returnDate", return_date)
                      ELSE params
    IN  IF max_price # NoArg THEN Put(withReturn, "maxPrice", max_price)
        ELSE withReturn

SearchLocations ==
    \E keyword \in {"Bangkok", "BKK"}, outcome \in ProviderOutcomes :
        LET request == [keyword |-> keyword, subType |-> "CITY,AIRPORT"]
        IN  /\ toolCall' = [tool |-> "search_locations", request |-> request,
                            provider |-> outcome]
            /\ toolOut' = AdapterResult(outcome, request)
            /\ UNCHANGED <<permVars, chatVars, sttVars>>

SearchFlights ==
    \E origin \in {"BOS", "BER"}, return_date \in {NoArg, Some("2025-06-05")},
       adults \in 1..MaxAdults, max_price \in {NoArg, Some(500), Some(100000)},
       non_stop_only \in {"false", "true"}, outcome \in ProviderOutcomes :
        LET request == FlightParams(origin, "NYC", "2025-06-01", return_date, adults,
                                    max_price, "EUR", non_stop_only, 10)
        IN  /\ toolCall' = [tool |-> "search_flights", request |-> request,
                            provider |-> outcome,
                            return_date |-> return_date, max_price |-> max_price]
            /\ toolOut' = AdapterResult(outcome, request)
            /\ UNCHANGED <<permVars, chatVars, sttVars>>

SearchHotels ==
    \E city \in {"PAR", "NYC"}, outcome \in ProviderOutcomes :
        LET request == [cityCode |-> city]
        IN  /\ toolCall' = [tool |-> "search_hotels", request |-> request,
                            provider |-> outcome]
            /\ toolOut' = AdapterResult(outcome, request)
            /\ UNCHANGED <<permVars, chatVars, sttVars>>

-----------------------------------------------------------------------------
(* The chat endpoint and the session database *)

Sessions == {"s1", "s2"}

\* a database file that does not exist yet: no session has any item
EmptyDatabase == [s \in Sessions |-> <<>>]

\* an item of a session's history; gen records the process run that stored it
Item(role, g) == [role |-> role, gen |-> g]

\* module start without the unlink: the previous run's file is opened again
StartupKeepsDatabase == db

\* module start: "if DATABASE_PATH.exists(): DATABASE_PATH.unlink()"
Startup == EmptyDatabase

\* the process stops and starts again
Restart ==
    /\ gen < MaxRestarts
    /\ db' = Startup
    /\ gen' = gen + 1
    /\ served' = {}
    /\ lost' = {s \in Sessions : db[s] # <<>>}
    /\ chatLog' = [kind |-> "idle"]
    /\ UNCHANGED <<permVars, toolVars, sttVars>>

\* the history Runner.run reads through SQLiteSession(session_id, DATABASE_PATH)
SessionHistory(sid) == db[sid]

\* POST /chat answered: the run stores the user's message and the reply
ChatOk ==
    \E sid \in Sessions :
        /\ Len(db[sid]) + 2 <= MaxHistory
        /\ db' = [db EXCEPT ![sid] = @ \o <<Item("user", gen), Item("assistant", gen)>>]
        /\ served' = served \cup {sid}
        /\ chatLog' = [kind |-> "chat", session |-> sid, seen |-> SessionHistory(sid),
                       first |-> sid \notin served, status |-> 200]
        /\ UNCHANGED <<gen, lost, permVars, toolVars, sttVars>>

\* POST /chat failed: the run raised, "raise HTTPException(status_code=500)";
\* the run may have stored the user's message before it raised
ChatFail ==
    \E sid \in Sessions, stored \in BOOLEAN :
        /\ Len(db[sid]) + 1 <= MaxHistory
        /\ db' = [db EXCEPT ![sid] = IF stored THEN @ \o <<Item("user", gen)>> ELSE @]
        /\ served' = served \cup {sid}
        /\ chatLog' = [kind |-> "chat", session |-> sid, seen |-> SessionHistory(sid),
                       first |-> sid \notin served, status |-> 500]
        /\ UNCHANGED <<gen, lost, permVars, toolVars, sttVars>>

-----------------------------------------------------------------------------
(* The speech-to-text endpoint *)

\* where a request can fail: audio_file.read(), NamedTemporaryFile(..),
\* temp_file.write(..), open(temp_path), transcriptions.create(..)
SttFailures == {"none", "read", "create", "write", "open", "transcribe"}

\* NamedTemporaryFile(suffix='.webm', delete=False) has created the file
TempCreated(fail) == fail \notin {"read", "create"}

\* the inner try was entered, so its finally runs os.unlink(temp_path)
TempUnlinked(fail) == fail \in {"none", "open", "transcribe"}

\* the response: the transcript with confidence 1.0, or HTTP 500
SttResponse(fail, audio) ==
    IF fail = "none"
    THEN [status |-> 200, text |-> <<"transcript of", audio>>, confidence |-> "1.0"]
    ELSE [status |-> 500, detail |-> <<"Speech-to-text error: ", fail>>]

\* one POST /speech-to-text request, from the upload to the response
SpeechToText ==
    \E audio \in {"a.webm", "b.webm"}, fail \in SttFailures :
        LET temp == nextTemp + 1
        IN  /\ nextTemp < MaxUploads
            /\ nextTemp' = IF TempCreated(fail) THEN temp ELSE nextTemp
            /\ files' = IF TempCreated(fail) /\ ~TempUnlinked(fail)
                        THEN files \cup {temp} ELSE files
            /\ sttOut' = [kind |-> "done", response |-> SttResponse(fail, audio),
                          temp |-> IF TempCreated(fail) THEN temp ELSE 0]
            /\ UNCHANGED <<permVars, toolVars, chatVars>>

-----------------------------------------------------------------------------
(* Specifications *)

\* no request has been made since startup
InitService ==
    /\ toolCall = [tool |-> "idle"]
    /\ toolOut = [kind |-> "idle"]
    /\ db = EmptyDatabase
    /\ gen = 0
    /\ served = {}
    /\ lost = {}
    /\ chatLog = [kind |-> "idle"]
    /\ files = {}
    /\ nextTemp = 0
    /\ sttOut = [kind |-> "idle"]

\* a call with the default arguments (one departure day, no return range)
DefaultCall ==
    [departure_date_start |-> Strftime(WindowAnchor),
     departure_date_end |-> Strftime(WindowAnchor),
     return_date_start |-> None, return_date_end |-> None,
     min_days |-> 1, max_days |-> 7]

Init ==
    /\ permArgs = DefaultCall
    /\ permOut = [kind |-> "idle"]
    /\ InitService

\* a call of permutations is about to be made, with any of the modelled arguments
InitPerm ==
    /\ permArgs \in PermutationsInputs
    /\ InBounds(permArgs)
    /\ permOut = [kind |-> "pending"]
    /\ InitService

PermNext == PermutationsCall

ToolNext == SearchLocations \/ SearchFlights \/ SearchHotels

ChatNext == ChatOk \/ ChatFail \/ Restart

SttNext == SpeechToText

\* calls of the permutations tool
SpecPerm == InitPerm /\ [][PermNext]_vars

\* calls of the provider tool adapters
SpecTools == Init /\ [][ToolNext]_vars

\* chat requests and process restarts
SpecChat == Init /\ [][ChatNext]_vars

\* speech-to-text requests
SpecStt == Init /\ [][SttNext]_vars

-----------------------------------------------------------------------------
(* Properties of permutations *)

\* the call has returned
Returned == permOut.kind \notin {"idle", "pending"}

Parses(s) == s # None /\ Strptime(s).exc = "none"

DateOf(s) == Strptime(s).val

\* start and end parse, and start <= end
ValidRange(s, e) == Parses(s) /\ Parses(e) /\ DateLe(DateOf(s), DateOf(e))

\* every calendar date from s to e
DatesOfRange(s, e) == DaysFrom(DateOf(s), DaysBetween(DateOf(s), DateOf(e)) + 1)

\* the n-th day after d
RECURSIVE DayAfter(_, _)
DayAfter(d, n) == IF n = 0 THEN d ELSE DayAfter(NextDay(d), n - 1)

\* the pairs the contract keeps: departure before return, duration within bounds
ContractPairs(a) ==
    {p \in DatesOfRange(a.departure_date_start, a.departure_date_end)
            \X DatesOfRange(a.return_date_start, a.return_date_end) :
        /\ ToOrdinal(p[1]) < ToOrdinal(p[2])
        /\ a.min_days <= DaysBetween(p[1], p[2])
        /\ DaysBetween(p[1], p[2]) <= a.max_days}

IsRoundTrip(item) == DOMAIN item = {"departure_date", "return_date"}

IsOneWay(item) == DOMAIN item = {"departure_date"}

\* items is exactly the contract's pairs, departure-major and return-minor
IsFilteredProduct(items, a) ==
    /\ \A i \in 1..Len(items) :
          /\ IsRoundTrip(items[i])
          /\ \E p \in ContractPairs(a) :
                items[i] = [departure_date |-> Strftime(p[1]), return_date |-> Strftime(p[2])]
    /\ \A p \in ContractPairs(a) : \E i \in 1..Len(items) :
          items[i] = [departure_date |-> Strftime(p[1]), return_date |-> Strftime(p[2])]
    /\ \A i \in 1..Len(items) : \A j \in 1..Len(items) :
          i < j => \/ StrLess(items[i].departure_date, items[j].departure_date)
                   \/ /\ items[i].departure_date = items[j].departure_date
                      /\ StrLess(items[i].return_date, items[j].return_date)

\* items is one one-way record per date of the departure range, ascending
IsOneWayList(items, a) ==
    /\ Len(items) = DaysBetween(DateOf(a.departure_date_start), DateOf(a.departure_date_end)) + 1
    /\ \A i \in 1..Len(items) :
          items[i] = [departure_date |->
                         Strftime(DayAfter(DateOf(a.departure_date_start), i - 1))]

\* C1: a call with a valid departure range and a valid return range returns
\* exactly the pairs of the cartesian product of the two ranges with
\* departure < return and min_days <= days <= max_days, departure-major and
\* return-minor, each once.
C1_FilteredProduct ==
    /\ Returned
    /\ ValidRange(permArgs.departure_date_start, permArgs.departure_date_end)
    /\ ValidRange(permArgs.return_date_start, permArgs.return_date_end)
    => /\ permOut.kind = "array"
       /\ IsFilteredProduct(permOut.items, permArgs)

\* C2: a call with a valid departure range and no return range returns one
\* record per date of the range, ascending, each with a departure_date only,
\* whatever min_days and max_days are.
C2_OneWayPerDeparture ==
    /\ Returned
    /\ ValidRange(permArgs.departure_date_start, permArgs.departure_date_end)
    /\ permArgs.return_date_start = None
    /\ permArgs.return_date_end = None
    => /\ permOut.kind = "array"
       /\ IsOneWayList(permOut.items, permArgs)

\* no range of the call ends on datetime.max
EndsBeforeMax(a) ==
    /\ Parses(a.departure_date_end) => DateOf(a.departure_date_end) # DateMax
    /\ Parses(a.return_date_end) => DateOf(a.return_date_end) # DateMax

\* C1 and C2 for ranges that end before datetime.max, where the increment
\* after the last date of a range cannot overflow: both hold there.
ProductAndOneWayBeforeMax ==
    EndsBeforeMax(permArgs) => C1_FilteredProduct /\ C2_OneWayPerDeparture

\* C3: a call given exactly one of return_date_start and return_date_end
\* returns an error object.
C3_HalfRangeRejected ==
    /\ Returned
    /\ (permArgs.return_date_start = None) # (permArgs.return_date_end = None)
    => permOut.kind = "object"

\* C4: a call whose departure_date_start or departure_date_end does not parse
\* returns an error object; every call returns a JSON array of date-pair
\* records or an error object, and never raises.
C4_ErrorObjectNeverRaises ==
    Returned =>
        /\ ~Parses(permArgs.departure_date_start) \/ ~Parses(permArgs.departure_date_end)
              => permOut.kind = "object"
        /\ permOut.kind \in {"array", "object"}
        /\ permOut.kind = "array" =>
              \A i \in 1..Len(permOut.items) :
                  IsRoundTrip(permOut.items[i]) \/ IsOneWay(permOut.items[i])

\* a call with an unparseable departure date has returned an error object
C4_Witness ==
    /\ Returned
    /\ ~Parses(permArgs.departure_date_start)
    /\ permOut.kind = "object"

\* C5 as stated: with min_days > max_days, whatever the departure range and
\* the optional return range, the call returns the empty sequence.  (Stated
\* for ranges that end before datetime.max.)
C5_EmptyWheneverMinAboveMax ==
    /\ Returned
    /\ permArgs.min_days > permArgs.max_days
    /\ EndsBeforeMax(permArgs)
    /\ ValidRange(permArgs.departure_date_start, permArgs.departure_date_end)
    /\ \/ permArgs.return_date_start = None /\ permArgs.return_date_end = None
       \/ ValidRange(permArgs.return_date_start, permArgs.return_date_end)
    => permOut.kind = "array" /\ permOut.items = <<>>

\* the same call with min_days lowered to max_days
WithMinAtMax(a) == [a EXCEPT !.min_days = a.max_days]

\* C5 amended: min_days > max_days is not rejected (the call fails exactly
\* when the same call with min_days = max_days fails) and no round-trip pair
\* is returned: a returned sequence has no record with a return_date, and it
\* is empty when the return range is valid.
C5_NoRoundTripWhenMinAboveMax ==
    Returned /\ permArgs.min_days > permArgs.max_days =>
        /\ permOut.kind = Permutations(WithMinAtMax(permArgs)).kind
        /\ permOut.kind = "array" =>
              /\ \A i \in 1..Len(permOut.items) : IsOneWay(permOut.items[i])
              /\ ValidRange(permArgs.return_date_start, permArgs.return_date_end)
                    => permOut.items = <<>>

\* min_days > max_days emptied a result that has pairs for min_days = 0
C5_Witness ==
    /\ Returned
    /\ permArgs.min_days > permArgs.max_days
    /\ ValidRange(permArgs.return_date_start, permArgs.return_date_end)
    /\ permOut.kind = "array"
    /\ permOut.items = <<>>
    /\ Permutations([permArgs EXCEPT !.min_days = 0, !.max_days = MaxDays]).items # <<>>

\* C8: when both return dates are supplied, every record carries a
\* return_date and no one-way record is produced; when the return range
\* holds no date (start after end) the result is the empty sequence.
C8_NoOneWayWhenRangeSupplied ==
    /\ Returned
    /\ Parses(permArgs.return_date_start)
    /\ Parses(permArgs.return_date_end)
    /\ permOut.kind = "array"
    => /\ \A i \in 1..Len(permOut.items) : IsRoundTrip(permOut.items[i])
       /\ ~DateLe(DateOf(permArgs.return_date_start), DateOf(permArgs.return_date_end))
             => permOut.items = <<>>

-----------------------------------------------------------------------------
(* Properties of the tool adapters *)

\* C6: whenever the provider call fails with any error the adapter returns
\* an error object: every invocation ends with the provider's data or with
\* the error object, and no exception leaves the adapter.
C6_AdapterNeverRaises ==
    toolCall.tool # "idle" =>
        /\ toolCall.provider = "none" => toolOut.kind = "json"
        /\ toolCall.provider # "none" => toolOut.kind = "object"

\* C9: the request of search_flights contains returnDate exactly when
\* return_date is not None, and maxPrice exactly when max_price is not None.
C9_OptionalParamsOnlyWithValue ==
    toolCall.tool = "search_flights" =>
        /\ "returnDate" \in DOMAIN toolCall.request <=> toolCall.return_date # NoArg
        /\ "maxPrice" \in DOMAIN toolCall.request <=> toolCall.max_price # NoArg

-----------------------------------------------------------------------------
(* Properties of the chat endpoint *)

IsPrefix(s, u) == Len(s) <= Len(u) /\ \A i \in 1..Len(s) : s[i] = u[i]

\* what the last chat request saw: nothing if it was the session's first
\* request of this run, and only items stored in this run
SeesOnlyThisRun ==
    chatLog.kind = "chat" =>
        /\ chatLog.first => chatLog.seen = <<>>
        /\ \A i \in 1..Len(chatLog.seen) : chatLog.seen[i].gen = gen

\* within a run, a step only appends to a session's history
AppendsOnly == gen' = gen => \A s \in Sessions : IsPrefix(db[s], db'[s])

\* C7: every restart clears all conversations: the first chat request of a
\* session after a restart runs against an empty history, no item stored
\* before the restart is visible to a request, and between restarts a
\* session's history only grows by appending.
C7_RestartClearsConversations == [](SeesOnlyThisRun) /\ [][AppendsOnly]_vars

\* after a restart, the first request of a session whose history the
\* restart removed
C7_Witness ==
    /\ gen > 0
    /\ chatLog.kind = "chat"
    /\ chatLog.first
    /\ chatLog.session \in lost

-----------------------------------------------------------------------------
(* Properties of the speech-to-text endpoint *)

\* C10: after a request completes, with the transcript or with HTTP 500,
\* the temporary file created for it no longer exists, and every failure is
\* HTTP 500 with the prefixed detail.
C10_TempFileAlwaysRemoved ==
    sttOut.kind = "done" =>
        /\ sttOut.temp # 0 => sttOut.temp \notin files
        /\ sttOut.response.status \in {200, 500}
        /\ sttOut.response.status = 500 =>
              sttOut.response.detail[1] = "Speech-to-text error: "
        /\ sttOut.response.status = 200 => sttOut.response.confidence = "1.0"

====
